---- MODULE Spec2Model ----
(***************************************************************************)
(* State-machine model of model/gpt.py: the two trainers GPTPretrain and   *)
(* GPT, their checkpoint files, the transfer-learning freeze policy, the   *)
(* fit loops and greedy decoding.                                          *)
(*                                                                         *)
(* Tensors are abstracted to one small integer per parameter group; the    *)
(* groups are the state_dict keys the source distinguishes (the embedding, *)
(* the decoder blocks, decoder.linear, the classifier).  torch semantics   *)
(* assumed: Optimizer.zero_grad() sets gradients to None, so Adam skips    *)
(* every parameter whose requires_grad is False; load_state_dict is strict.*)
(***************************************************************************)
EXTENDS Integers, Sequences, FiniteSets, TLC

VARIABLES
    files,      \* the file system: path -> checkpoint file (or no file)
    pretrain,   \* the GPTPretrain instance
    gpt,        \* the GPT instance
    live,       \* which trainer object the running script holds
    out,        \* what the last public call did that a caller can observe
    call,       \* the frame of the running fit/predict call, or idle
    budget      \* how many more public calls the script makes

vars == <<files, pretrain, gpt, live, out, call, budget>>

----------------------------------------------------------------------------
(* Bounds of the model *)

MaxCalls == 5        \* length of the script: public calls made
MaxEpochs == 2       \* fit(epochs=...)
MaxBatches == 3      \* len(dataloader)
MaxMiniBatch == 2    \* fit(mini_batch=...)
MaxPromptLen == 2    \* predict: length of the prompt
MaxSeqLen == 3       \* longest sequence of a pretraining batch
MaxLimitTokens == 3  \* predict(limit_tokens=...)

None == "None"
Paths == {"a.pt", "b.pt"}
PathArg == Paths \cup {None}
ParamVals == {0, 1}
BatchVals == {1, 2}
ParamMod == Cardinality(ParamVals)
Seeds == {0}
Tokens == {0, 1, 2}          \* token ids, token_size = 3

----------------------------------------------------------------------------
(* Parameter groups (state_dict keys) *)

GPTModelKeys == {"embedding_layer", "decoder.layers", "decoder.linear"}

GPTFineTuneKeys ==
    {"pretrained_model.embedding_layer", "pretrained_model.decoder.layers",
     "pretrained_model.decoder.linear", "classifier"}

\* The key of GPTFineTune under which a key of its pretrained_model appears.
Prefixed(k) ==
    CASE k = "embedding_layer" -> "pretrained_model.embedding_layer"
      [] k = "decoder.layers"  -> "pretrained_model.decoder.layers"
      [] k = "decoder.linear"  -> "pretrained_model.decoder.linear"

PretrainedModelKeys == {Prefixed(k) : k \in GPTModelKeys}

\* self.model.pretrained_model.state_dict()
PretrainedModelOf(model) == [k \in GPTModelKeys |-> model[Prefixed(k)]]

\* A freshly constructed module: every group holds the initial draw s.
FreshModule(keys, s) == [k \in keys |-> s]

\* optim.Adam(params=...): no per-parameter state yet.
FreshAdam(keys) == [k \in keys |-> 0]

----------------------------------------------------------------------------
(* Files *)

\* A file holds the three entries of the saved dictionary.  saver is history,
\* not content: the trainer as it was in memory when it wrote the file.
NoFile ==
    [exists |-> FALSE, model_state_dict |-> <<>>,
     optimizer_state_dict |-> <<>>, epoch |-> 0, saver |-> <<>>]

\* torch.save({...}, path)
CheckpointOf(self) ==
    [exists |-> TRUE, model_state_dict |-> self.model,
     optimizer_state_dict |-> self.optimizer, epoch |-> self.epoch,
     saver |-> self]

\* Module.load_state_dict (strict): the keys must be the module's keys.
KeysMatch(module, state_dict) == DOMAIN state_dict = DOMAIN module

----------------------------------------------------------------------------
(* What a call shows its caller *)

Idle == [pc |-> "idle"]

\* printed: the messages of the call other than progress lines; report: the
\* last progress line of a fit call (the frame counts them per epoch);
\* returned: the value returned; frame: the frame a fit call started with or
\* a predict call ended with.
NoReport ==
    [epoch |-> 0, batch |-> 0, loss |-> <<0, 1>>, perplexity |-> <<0, 1>>]

Quiet(op) ==
    [op |-> op, printed |-> <<>>, report |-> NoReport, read |-> {},
     wrote |-> {}, raised |-> FALSE, returned |-> <<>>, frame |-> Idle]

\* A public call starts when no call is running.
Enter ==
    /\ call.pc = "idle"
    /\ budget > 0
    /\ budget' = budget - 1

----------------------------------------------------------------------------
(* One optimisation step, shared by both trainers *)

RECURSIVE SumOver(_, _)
SumOver(f, keys) ==
    IF keys = {} THEN 0
    ELSE LET k == CHOOSE x \in keys : TRUE IN f[k] + SumOver(f, keys \ {k})

\* The forward pass reads every parameter: loss and gradients depend on the
\* whole model and on the batch b.
Loss(model, b) == 1 + ((b + SumOver(model, DOMAIN model)) % 2)

Grad(model, b) == b + SumOver(model, DOMAIN model)

\* loss.backward(); optimizer.step() after optimizer.zero_grad(): exactly the
\* parameters in `trainable` have a gradient; Adam advances their step count
\* and moves them, and skips the others.
AdamModel(model, optimizer, trainable, b) ==
    [k \in DOMAIN model |->
        IF k \in trainable
        THEN (model[k] + Grad(model, b) + optimizer[k] + 1) % ParamMod
        ELSE model[k]]

\* Mutant: the optimizer steps twice.
AdamState_Twice(optimizer, trainable) ==
    [k \in DOMAIN optimizer |->
        IF k \in trainable THEN optimizer[k] + 2 ELSE optimizer[k]]

AdamState(optimizer, trainable) ==
    [k \in DOMAIN optimizer |->
        IF k \in trainable THEN optimizer[k] + 1 ELSE optimizer[k]]

\* Perplexity().loss(entropy_loss): model.loss is not part of the sources;
\* the glossary gives it as the exponential of the cross-entropy.
PerplexityLoss(loss) == 2 ^ loss

----------------------------------------------------------------------------
(* GPTPretrain *)

\* GPTPretrain.__init__ up to the initial load (lines 53-66)
PretrainNew(checkpoint, s) ==
    [model |-> FreshModule(GPTModelKeys, s),
     optimizer |-> FreshAdam(GPTModelKeys),
     checkpoint |-> checkpoint,
     entropy_loss |-> 0, perplexity |-> 0, epoch |-> 0]

\* GPTPretrain.__save_model: the file system after the save
Pretrain__save_model(self, checkpoint) ==
    [files EXCEPT ![checkpoint] = CheckpointOf(self)]

\* GPTPretrain.__load_model raises (strict load_state_dict on other keys)
Pretrain__load_raises(self, checkpoint) ==
    /\ files[checkpoint].exists
    /\ ~KeysMatch(self.model, files[checkpoint].model_state_dict)

\* GPTPretrain.__load_model: the instance after a load that does not raise
Pretrain__load_model(self, checkpoint) ==
    IF files[checkpoint].exists
    THEN [self EXCEPT !.model = files[checkpoint].model_state_dict,
                      !.optimizer = files[checkpoint].optimizer_state_dict,
                      !.epoch = files[checkpoint].epoch]
    ELSE self

\* Mutant: an explicit path is written but does not become the default.
Pretrain_save_model_KeepsPath(self, path) ==
    IF path # None
    THEN [self |-> self, files |-> Pretrain__save_model(self, path),
          printed |-> <<"Model Saved">>, wrote |-> {path}]
    ELSE IF self.checkpoint # None
    THEN [self |-> self,
          files |-> Pretrain__save_model(self, self.checkpoint),
          printed |-> <<"Model Saved">>, wrote |-> {self.checkpoint}]
    ELSE [self |-> self, files |-> files,
          printed |-> <<"Checkpoint not found">>, wrote |-> {}]

\* GPTPretrain.save_model: [self, files, printed, wrote]
Pretrain_save_model(self, path) ==
    IF path # None
    THEN [self |-> [self EXCEPT !.checkpoint = path],
          files |-> Pretrain__save_model(self, path),
          printed |-> <<"Model Saved">>, wrote |-> {path}]
    ELSE IF self.checkpoint # None
    THEN [self |-> self,
          files |-> Pretrain__save_model(self, self.checkpoint),
          printed |-> <<"Model Saved">>, wrote |-> {self.checkpoint}]
    ELSE [self |-> self, files |-> files,
          printed |-> <<"Checkpoint not found">>, wrote |-> {}]

\* GPTPretrain.load_model: [self, raised, printed, read]
Pretrain_load_model(self, path) ==
    IF path # None
    THEN IF Pretrain__load_raises(self, path)
         THEN [self |-> self, raised |-> TRUE, printed |-> <<>>, read |-> {path}]
         ELSE [self |-> [Pretrain__load_model(self, path) EXCEPT !.checkpoint = path],
               raised |-> FALSE, printed |-> <<>>,
               read |-> IF files[path].exists THEN {path} ELSE {}]
    ELSE IF self.checkpoint # None
    THEN IF Pretrain__load_raises(self, self.checkpoint)
         THEN [self |-> self, raised |-> TRUE, printed |-> <<>>,
               read |-> {self.checkpoint}]
         ELSE [self |-> Pretrain__load_model(self, self.checkpoint),
               raised |-> FALSE, printed |-> <<>>,
               read |-> IF files[self.checkpoint].exists
                        THEN {self.checkpoint} ELSE {}]
    ELSE [self |-> self, raised |-> FALSE,
          printed |-> <<"Checkpoint not found">>, read |-> {}]

\* GPTPretrain.pretrain_step on batch b
Pretrain_pretrain_step(self, b) ==
    [self EXCEPT
        !.model = AdamModel(self.model, self.optimizer, GPTModelKeys, b),
        !.optimizer = AdamState(self.optimizer, GPTModelKeys),
        !.entropy_loss = @ + Loss(self.model, b),
        !.perplexity = @ + PerplexityLoss(Loss(self.model, b))]

PretrainSaveModel(path) ==
    /\ live = "GPTPretrain"
    /\ Enter
    /\ LET r == Pretrain_save_model(pretrain, path)
       IN  /\ pretrain' = r.self
           /\ files' = r.files
           /\ out' = [Quiet("GPTPretrain.save_model") EXCEPT
                         !.printed = r.printed, !.wrote = r.wrote]
    /\ UNCHANGED <<gpt, live, call>>

PretrainLoadModel(path) ==
    /\ live = "GPTPretrain"
    /\ Enter
    /\ LET r == Pretrain_load_model(pretrain, path)
       IN  /\ pretrain' = r.self
           /\ out' = [Quiet("GPTPretrain.load_model") EXCEPT
                         !.printed = r.printed, !.read = r.read,
                         !.raised = r.raised]
    /\ UNCHANGED <<files, gpt, live, call>>

PretrainStep(b) ==
    /\ live = "GPTPretrain"
    /\ Enter
    /\ pretrain' = Pretrain_pretrain_step(pretrain, b)
    /\ out' = Quiet("GPTPretrain.pretrain_step")
    /\ UNCHANGED <<files, gpt, live, call>>

----------------------------------------------------------------------------
(* GPT *)

NoPretrain == PretrainNew(None, 0)

\* GPT.__init__ up to the initial load (lines 221-240); a new nn.Module is in
\* training mode and all of its parameters require gradients.
GPTNew(checkpoint, s) ==
    [model |-> FreshModule(GPTFineTuneKeys, s),
     optimizer |-> FreshAdam(GPTFineTuneKeys),
     requires_grad |-> [k \in GPTFineTuneKeys |-> TRUE],
     mode |-> "train",
     epoch |-> 0, checkpoint |-> checkpoint,
     entropy_loss |-> 0, training |-> FALSE]

\* Mutant: the whole backbone is frozen, the final projection included.
Freeze_WholeBackbone(requires_grad) ==
    [k \in DOMAIN requires_grad |->
        IF k \in PretrainedModelKeys THEN FALSE ELSE requires_grad[k]]

\* for params in self.model.pretrained_model.parameters():
\*     params.requires_grad = False
\* self.model.pretrained_model.decoder.linear.requires_grad_(True)
Freeze(requires_grad) ==
    [k \in DOMAIN requires_grad |->
        IF k = "pretrained_model.decoder.linear" THEN TRUE
        ELSE IF k \in PretrainedModelKeys THEN FALSE
        ELSE requires_grad[k]]

Trainable(self) == {k \in GPTFineTuneKeys : self.requires_grad[k]}

\* GPT.__load_model raises (strict load_state_dict on other keys)
GPT__load_raises(self, path) ==
    /\ files[path].exists
    /\ ~KeysMatch(self.model, files[path].model_state_dict)

\* Mutant: the optimizer state of the checkpoint is not restored.
GPT__load_model_KeepsOptimizer(self, path) ==
    IF files[path].exists
    THEN [self EXCEPT !.model = files[path].model_state_dict,
                      !.epoch = files[path].epoch,
                      !.requires_grad = Freeze(@),
                      !.training = TRUE]
    ELSE self

\* Mutant: the freeze and the flag are applied whether or not the file exists.
GPT__load_model_AlwaysMarks(self, path) ==
    IF files[path].exists
    THEN [self EXCEPT !.model = files[path].model_state_dict,
                      !.optimizer = files[path].optimizer_state_dict,
                      !.epoch = files[path].epoch,
                      !.requires_grad = Freeze(@),
                      !.training = TRUE]
    ELSE [self EXCEPT !.requires_grad = Freeze(@), !.training = TRUE]

\* GPT.__load_model: the instance after a load that does not raise
GPT__load_model(self, path) ==
    IF files[path].exists
    THEN [self EXCEPT !.model = files[path].model_state_dict,
                      !.optimizer = files[path].optimizer_state_dict,
                      !.epoch = files[path].epoch,
                      !.requires_grad = Freeze(@),
                      !.training = TRUE]
    ELSE self

\* GPT.load_model: [self, raised, printed, read]
GPT_load_model(self, path) ==
    IF path = None /\ self.checkpoint # None
    THEN IF GPT__load_raises(self, self.checkpoint)
         THEN [self |-> self, raised |-> TRUE, printed |-> <<>>,
               read |-> {self.checkpoint}]
         ELSE [self |-> GPT__load_model(self, self.checkpoint),
               raised |-> FALSE, printed |-> <<>>,
               read |-> IF files[self.checkpoint].exists
                        THEN {self.checkpoint} ELSE {}]
    ELSE IF path # None
    THEN IF GPT__load_raises(self, path)
         THEN [self |-> self, raised |-> TRUE, printed |-> <<>>, read |-> {path}]
         ELSE [self |-> [GPT__load_model(self, path) EXCEPT !.checkpoint = path],
               raised |-> FALSE, printed |-> <<>>,
               read |-> IF files[path].exists THEN {path} ELSE {}]
    ELSE [self |-> self, raised |-> FALSE, printed |-> <<>>, read |-> {}]

\* GPT.__save_model: the file system after the save
GPT__save_model(self, path) ==
    [files EXCEPT ![path] = CheckpointOf(self)]

\* GPT.save_model: [self, files, printed, wrote]
GPT_save_model(self, path) ==
    IF path = None /\ self.checkpoint # None
    THEN [self |-> self, files |-> GPT__save_model(self, self.checkpoint),
          printed |-> <<"Model is saved">>, wrote |-> {self.checkpoint}]
    ELSE IF path # None
    THEN [self |-> [self EXCEPT !.checkpoint = path],
          files |-> GPT__save_model(self, path),
          printed |-> <<"Model is saved">>, wrote |-> {path}]
    ELSE [self |-> self, files |-> files, printed |-> <<>>, wrote |-> {}]

\* GPT.load_pretrained_model raises: torch.load(None), torch.load of a missing
\* file, or strict load_state_dict of a checkpoint that is not a GPTModel's.
GPT_load_pretrained_raises(self, path) ==
    \/ path = None
    \/ ~files[path].exists
    \/ ~KeysMatch(PretrainedModelOf(self.model), files[path].model_state_dict)

\* Mutant: the backbone is loaded and left trainable.
GPT_load_pretrained_model_NoFreeze(self, path) ==
    [self EXCEPT
        !.model = [k \in GPTFineTuneKeys |->
                      IF k \in PretrainedModelKeys
                      THEN files[path].model_state_dict[
                               CHOOSE j \in GPTModelKeys : Prefixed(j) = k]
                      ELSE @[k]]]

\* GPT.load_pretrained_model: the instance after a load that does not raise
GPT_load_pretrained_model(self, path) ==
    [self EXCEPT
        !.model = [k \in GPTFineTuneKeys |->
                      IF k \in PretrainedModelKeys
                      THEN files[path].model_state_dict[
                               CHOOSE j \in GPTModelKeys : Prefixed(j) = k]
                      ELSE @[k]],
        !.requires_grad = Freeze(@)]

\* Mutant: the optimizer steps every parameter, frozen or not.
GPT_train_step_AllParameters(self, b) ==
    [self EXCEPT
        !.model = AdamModel(self.model, self.optimizer, GPTFineTuneKeys, b),
        !.optimizer = AdamState(self.optimizer, GPTFineTuneKeys),
        !.entropy_loss = @ + Loss(self.model, b)]

\* GPT.train_step on batch b
GPT_train_step(self, b) ==
    [self EXCEPT
        !.model = AdamModel(self.model, self.optimizer, Trainable(self), b),
        !.optimizer = AdamState(self.optimizer, Trainable(self)),
        !.entropy_loss = @ + Loss(self.model, b)]

NoGPT == GPTNew(None, 0)

\* The script holds one trainer object at a time: binding a newly constructed
\* trainer drops the other one.  Trainers of different scripts meet only
\* through the checkpoint files.
Hold(who) ==
    /\ live' = who
    /\ IF who = "GPT" THEN pretrain' = NoPretrain ELSE gpt' = NoGPT

\* x = GPTPretrain(..., checkpoint=checkpoint)
PretrainInit(checkpoint) ==
    /\ Enter
    /\ \E s \in Seeds :
        LET fresh == PretrainNew(checkpoint, s)
            r == Pretrain_load_model(fresh, checkpoint)
        IN  IF checkpoint = None
            THEN /\ pretrain' = fresh
                 /\ Hold("GPTPretrain")
                 /\ out' = Quiet("GPTPretrain.__init__")
            ELSE /\ pretrain' = IF r.raised THEN pretrain ELSE r.self
                 /\ IF r.raised THEN UNCHANGED <<gpt, live>>
                    ELSE Hold("GPTPretrain")
                 /\ out' = [Quiet("GPTPretrain.__init__") EXCEPT
                               !.raised = r.raised, !.read = r.read,
                               !.printed = r.printed]
    /\ UNCHANGED <<files, call>>

\* x = GPT(..., checkpoint=checkpoint)
GPTInit(checkpoint) ==
    /\ Enter
    /\ \E s \in Seeds :
        LET fresh == GPTNew(checkpoint, s)
            r == GPT_load_model(fresh, checkpoint)
        IN  IF checkpoint = None
            THEN /\ gpt' = fresh
                 /\ Hold("GPT")
                 /\ out' = Quiet("GPT.__init__")
            ELSE /\ gpt' = IF r.raised THEN gpt ELSE r.self
                 /\ IF r.raised THEN UNCHANGED <<pretrain, live>>
                    ELSE Hold("GPT")
                 /\ out' = [Quiet("GPT.__init__") EXCEPT
                               !.raised = r.raised, !.read = r.read,
                               !.printed = r.printed]
    /\ UNCHANGED <<files, call>>

GPTSaveModel(path) ==
    /\ live = "GPT"
    /\ Enter
    /\ LET r == GPT_save_model(gpt, path)
       IN  /\ gpt' = r.self
           /\ files' = r.files
           /\ out' = [Quiet("GPT.save_model") EXCEPT
                         !.printed = r.printed, !.wrote = r.wrote]
    /\ UNCHANGED <<pretrain, live, call>>

GPTLoadModel(path) ==
    /\ live = "GPT"
    /\ Enter
    /\ LET r == GPT_load_model(gpt, path)
       IN  /\ gpt' = r.self
           /\ out' = [Quiet("GPT.load_model") EXCEPT
                         !.printed = r.printed, !.read = r.read,
                         !.raised = r.raised]
    /\ UNCHANGED <<files, pretrain, live, call>>

GPTLoadPretrainedModel(path) ==
    /\ live = "GPT"
    /\ Enter
    /\ IF GPT_load_pretrained_raises(gpt, path)
       THEN /\ gpt' = gpt
            /\ out' = [Quiet("GPT.load_pretrained_model") EXCEPT
                          !.raised = TRUE]
       ELSE /\ gpt' = GPT_load_pretrained_model(gpt, path)
            /\ out' = [Quiet("GPT.load_pretrained_model") EXCEPT
                          !.printed = <<"Loaded Pretrained Model">>,
                          !.read = {path}]
    /\ UNCHANGED <<files, pretrain, live, call>>

GPTTrainStep(b) ==
    /\ live = "GPT"
    /\ Enter
    /\ gpt' = GPT_train_step(gpt, b)
    /\ out' = Quiet("GPT.train_step")
    /\ UNCHANGED <<files, pretrain, live, call>>

----------------------------------------------------------------------------
(* The fit loops.  A fit call is a frame (the arguments pretrained_path (GPT
   only), epochs, batches = len(dataloader),
   mini_batch, e = epochs completed in this call, index = next batch of the
   running epoch, reports = progress lines printed in the running epoch,
   window = the losses of the steps this call has run since its last progress
   line); one action per loop iteration.  A progress line is recorded with
   the window it closes. *)

FitFrame(who, pretrained_path, epochs, batches, mini_batch) ==
    [pc |-> who, pretrained_path |-> pretrained_path,
     epochs |-> epochs, batches |-> batches,
     mini_batch |-> mini_batch, e |-> 0, index |-> 0, reports |-> 0,
     window |-> <<>>]

\* Mutant: a report only at the end of a full window, no final flush.
ReportDue_FullWindowsOnly(index, mini_batch, batches) ==
    index % mini_batch = mini_batch - 1

\* if index%mini_batch == mini_batch-1 or index == batches-1
ReportDue(index, mini_batch, batches) ==
    \/ index % mini_batch = mini_batch - 1
    \/ index = batches - 1

\* The progress line of GPTPretrain.fit (line 158); a quotient is kept as
\* <<numerator, denominator>>.
PretrainReport(self, index, mini_batch) ==
    [epoch |-> self.epoch + 1, batch |-> index + 1,
     loss |-> <<self.entropy_loss, mini_batch>>,
     perplexity |-> <<self.perplexity, mini_batch>>]

\* The progress line of GPT.fit (line 339)
GPTReport(self, index, mini_batch) ==
    [epoch |-> self.epoch + 1, batch |-> index + 1,
     loss |-> <<self.entropy_loss, mini_batch>>, perplexity |-> <<0, 1>>]

\* GPTPretrain.fit, lines 146-152: the initial load, then the loop is entered.
PretrainFitBegin(epochs, batches, mini_batch) ==
    /\ live = "GPTPretrain"
    /\ Enter
    /\ LET r == Pretrain_load_model(pretrain, pretrain.checkpoint)
           loaded == IF pretrain.checkpoint # None THEN r.self ELSE pretrain
           raised == pretrain.checkpoint # None /\ r.raised
       IN  /\ pretrain' = loaded
           /\ out' = [Quiet("GPTPretrain.fit") EXCEPT
                         !.raised = raised,
                         !.read = IF pretrain.checkpoint # None
                                  THEN r.read ELSE {},
                         !.frame = FitFrame("GPTPretrain.fit", None, epochs,
                                            batches, mini_batch)]
           /\ call' = IF raised THEN Idle
                      ELSE FitFrame("GPTPretrain.fit", None, epochs, batches,
                                    mini_batch)
    /\ UNCHANGED <<files, gpt, live>>

\* One iteration of the batch loop, lines 154-163
PretrainFitStep(b) ==
    /\ call.pc = "GPTPretrain.fit"
    /\ call.e < call.epochs
    /\ call.index < call.batches
    /\ LET stepped == Pretrain_pretrain_step(pretrain, b)
           due == ReportDue(call.index, call.mini_batch, call.batches)
           window == Append(call.window, Loss(pretrain.model, b))
       IN  /\ pretrain' = IF due
                          THEN [stepped EXCEPT !.entropy_loss = 0,
                                               !.perplexity = 0]
                          ELSE stepped
           /\ out' = IF due
                     THEN [out EXCEPT !.report =
                              PretrainReport(stepped, call.index, call.mini_batch)
                                  @@ [window |-> window]]
                     ELSE out
           /\ call' = [call EXCEPT !.index = @ + 1,
                                   !.reports = IF due THEN @ + 1 ELSE @,
                                   !.window = IF due THEN <<>> ELSE window]
    /\ UNCHANGED <<files, gpt, live, budget>>

\* The end of one epoch, lines 164-165
PretrainFitEpochEnd ==
    /\ call.pc = "GPTPretrain.fit"
    /\ call.e < call.epochs
    /\ call.index = call.batches
    /\ pretrain' = [pretrain EXCEPT !.epoch = @ + 1]
    /\ call' = [call EXCEPT !.e = @ + 1, !.index = 0, !.reports = 0]
    /\ UNCHANGED <<files, gpt, live, out, budget>>

\* After the last epoch, lines 172-173
PretrainFitEnd ==
    /\ call.pc = "GPTPretrain.fit"
    /\ call.e = call.epochs
    /\ IF pretrain.checkpoint # None
       THEN /\ files' = Pretrain__save_model(pretrain, pretrain.checkpoint)
            /\ out' = [out EXCEPT !.printed = Append(@, "Model Saved"),
                                  !.wrote = {pretrain.checkpoint}]
       ELSE UNCHANGED <<files, out>>
    /\ call' = Idle
    /\ UNCHANGED <<pretrain, gpt, live, budget>>

\* GPT.sumary, lines 355-358
GPT_sumary(self) ==
    IF self.checkpoint # None
    THEN GPT_load_model(self, self.checkpoint)
    ELSE [self |-> self, raised |-> FALSE, printed |-> <<>>, read |-> {}]

\* Mutant: without a pretrained_path the backbone load is skipped and the
\* loop is entered on the parameters in memory.
GPT_fit_prologue_Silent(self, pretrained_path) ==
    LET r1 == IF self.checkpoint # None
              THEN GPT_load_model(self, self.checkpoint)
              ELSE [self |-> self, raised |-> FALSE, printed |-> <<>>,
                    read |-> {}]
    IN  IF r1.raised THEN r1
        ELSE IF r1.self.training = FALSE /\ pretrained_path # None
                /\ GPT_load_pretrained_raises(r1.self, pretrained_path)
        THEN [r1 EXCEPT !.raised = TRUE]
        ELSE LET load == r1.self.training = FALSE /\ pretrained_path # None
                 s2 == IF load
                       THEN GPT_load_pretrained_model(r1.self, pretrained_path)
                       ELSE r1.self
                 r3 == GPT_sumary([s2 EXCEPT !.mode = "train"])
             IN  [self |-> r3.self, raised |-> r3.raised,
                  printed |-> r1.printed \o r3.printed,
                  read |-> r1.read \cup r3.read]

\* GPT.fit, lines 322-328: [self, raised, printed, read] when the loop is
\* reached or an exception leaves the call.
GPT_fit_prologue(self, pretrained_path) ==
    LET r1 == IF self.checkpoint # None
              THEN GPT_load_model(self, self.checkpoint)
              ELSE [self |-> self, raised |-> FALSE, printed |-> <<>>,
                    read |-> {}]
    IN  IF r1.raised THEN r1
        ELSE IF r1.self.training = FALSE
                /\ GPT_load_pretrained_raises(r1.self, pretrained_path)
        THEN [r1 EXCEPT !.raised = TRUE]
        ELSE LET s2 == IF r1.self.training = FALSE
                       THEN GPT_load_pretrained_model(r1.self, pretrained_path)
                       ELSE r1.self
                 p2 == IF r1.self.training = FALSE
                       THEN <<"Loaded Pretrained Model">> ELSE <<>>
                 rd2 == IF r1.self.training = FALSE
                        THEN {pretrained_path} ELSE {}
                 r3 == GPT_sumary([s2 EXCEPT !.mode = "train"])
             IN  [self |-> r3.self, raised |-> r3.raised,
                  printed |-> r1.printed \o p2 \o r3.printed,
                  read |-> r1.read \cup rd2 \cup r3.read]

GPTFitBegin(pretrained_path, epochs, batches, mini_batch) ==
    /\ live = "GPT"
    /\ Enter
    /\ LET r == GPT_fit_prologue(gpt, pretrained_path)
       IN  /\ gpt' = r.self
           /\ out' = [Quiet("GPT.fit") EXCEPT
                         !.raised = r.raised, !.printed = r.printed,
                         !.read = r.read,
                         !.frame = FitFrame("GPT.fit", pretrained_path, epochs,
                                            batches, mini_batch)]
           /\ call' = IF r.raised THEN Idle
                      ELSE FitFrame("GPT.fit", pretrained_path, epochs,
                                    batches, mini_batch)
    /\ UNCHANGED <<files, pretrain, live>>

\* Mutant: the progress line is printed and the counter is left standing.
GPTFitStep_NoReset(b) ==
    /\ call.pc = "GPT.fit"
    /\ call.e < call.epochs
    /\ call.index < call.batches
    /\ LET stepped == GPT_train_step(gpt, b)
           due == ReportDue(call.index, call.mini_batch, call.batches)
           window == Append(call.window, Loss(gpt.model, b))
       IN  /\ gpt' = stepped
           /\ out' = IF due
                     THEN [out EXCEPT !.report =
                              GPTReport(stepped, call.index, call.mini_batch)
                                  @@ [window |-> window]]
                     ELSE out
           /\ call' = [call EXCEPT !.index = @ + 1,
                                   !.reports = IF due THEN @ + 1 ELSE @,
                                   !.window = IF due THEN <<>> ELSE window]
    /\ UNCHANGED <<files, pretrain, live, budget>>

\* One iteration of the batch loop, lines 331-340
GPTFitStep(b) ==
    /\ call.pc = "GPT.fit"
    /\ call.e < call.epochs
    /\ call.index < call.batches
    /\ LET stepped == GPT_train_step(gpt, b)
           due == ReportDue(call.index, call.mini_batch, call.batches)
           window == Append(call.window, Loss(gpt.model, b))
       IN  /\ gpt' = IF due THEN [stepped EXCEPT !.entropy_loss = 0]
                     ELSE stepped
           /\ out' = IF due
                     THEN [out EXCEPT !.report =
                              GPTReport(stepped, call.index, call.mini_batch)
                                  @@ [window |-> window]]
                     ELSE out
           /\ call' = [call EXCEPT !.index = @ + 1,
                                   !.reports = IF due THEN @ + 1 ELSE @,
                                   !.window = IF due THEN <<>> ELSE window]
    /\ UNCHANGED <<files, pretrain, live, budget>>

\* Mutant: the epoch loop goes round without counting the epoch.
GPTFitEpochEnd_KeepsEpoch ==
    /\ call.pc = "GPT.fit"
    /\ call.e < call.epochs
    /\ call.index = call.batches
    /\ call' = [call EXCEPT !.e = @ + 1, !.index = 0, !.reports = 0]
    /\ UNCHANGED <<files, pretrain, gpt, live, out, budget>>

\* The end of one epoch, line 341
GPTFitEpochEnd ==
    /\ call.pc = "GPT.fit"
    /\ call.e < call.epochs
    /\ call.index = call.batches
    /\ gpt' = [gpt EXCEPT !.epoch = @ + 1]
    /\ call' = [call EXCEPT !.e = @ + 1, !.index = 0, !.reports = 0]
    /\ UNCHANGED <<files, pretrain, live, out, budget>>

\* After the last epoch, lines 343-344
GPTFitEnd ==
    /\ call.pc = "GPT.fit"
    /\ call.e = call.epochs
    /\ IF gpt.checkpoint # None
       THEN /\ files' = GPT__save_model(gpt, gpt.checkpoint)
            /\ out' = [out EXCEPT !.printed = Append(@, "Model is saved"),
                                  !.wrote = {gpt.checkpoint}]
       ELSE UNCHANGED <<files, out>>
    /\ call' = Idle
    /\ UNCHANGED <<pretrain, gpt, live, budget>>

----------------------------------------------------------------------------
(* Greedy decoding *)

RECURSIVE SumSeq(_)
SumSeq(q) == IF q = <<>> THEN 0 ELSE Head(q) + SumSeq(Tail(q))

\* outputs[:, -1, :][v]: the logit of token v at the last position.  Under the
\* causal mask the last position attends to the whole input, so the logits
\* depend on every token of the input, on its length and on the parameters.
Logit(model, input, v) ==
    ((v + 1) * (SumSeq(input) + Len(input)) + v * SumOver(model, DOMAIN model)
        + model["classifier"]) % (Cardinality(Tokens) + 2)

\* Mutant: the token of the smallest logit is selected.
GPT__predict_token_ArgMin(model, input) ==
    CHOOSE v \in Tokens :
        /\ \A w \in Tokens : Logit(model, input, v) <= Logit(model, input, w)
        /\ \A w \in Tokens :
              Logit(model, input, w) = Logit(model, input, v) => v <= w

\* GPT.__predict_token: torch.max(predict, dim=-1) gives the index of the
\* first maximal logit.
GPT__predict_token(model, input) ==
    CHOOSE v \in Tokens :
        /\ \A w \in Tokens : Logit(model, input, w) <= Logit(model, input, v)
        /\ \A w \in Tokens :
              Logit(model, input, w) = Logit(model, input, v) => v <= w

\* The frame of a predict call: prompt is the argument, data the running
\* sequence, i the iterations completed, ended whether the loop was left by
\* the break.
PredictFrame(data, limit_tokens, end_token) ==
    [pc |-> "GPT.predict", prompt |-> data, data |-> data,
     limit_tokens |-> limit_tokens, end_token |-> end_token,
     i |-> 0, ended |-> FALSE]

\* GPT.predict, lines 366-367
GPTPredictBegin(data, limit_tokens, end_token) ==
    /\ live = "GPT"
    /\ Enter
    /\ gpt' = [gpt EXCEPT !.mode = "eval"]
    /\ out' = Quiet("GPT.predict")
    /\ call' = PredictFrame(data, limit_tokens, end_token)
    /\ UNCHANGED <<files, pretrain, live>>

\* Mutant: the token is appended before it is compared with end_token.
GPT_predict_iteration_AppendFirst(frame, token) ==
    [frame EXCEPT !.data = Append(@, token), !.i = @ + 1,
                  !.ended = (token = frame.end_token)]

\* What one iteration of the loop does to the frame, lines 370-374
GPT_predict_iteration(frame, token) ==
    IF token = frame.end_token
    THEN [frame EXCEPT !.ended = TRUE]
    ELSE [frame EXCEPT !.data = Append(@, token), !.i = @ + 1]

\* Mutant: an iteration of the decoding loop also trains on the sequence.
GPTPredictStep_Learns ==
    /\ call.pc = "GPT.predict"
    /\ ~call.ended
    /\ call.i < call.limit_tokens
    /\ call' = GPT_predict_iteration(call,
                   GPT__predict_token(gpt.model, call.data))
    /\ gpt' = GPT_train_step(gpt, 1)
    /\ UNCHANGED <<files, pretrain, live, out, budget>>

GPTPredictStep ==
    /\ call.pc = "GPT.predict"
    /\ ~call.ended
    /\ call.i < call.limit_tokens
    /\ call' = GPT_predict_iteration(call,
                   GPT__predict_token(gpt.model, call.data))
    /\ UNCHANGED <<files, pretrain, gpt, live, out, budget>>

\* return data, line 376
GPTPredictReturn ==
    /\ call.pc = "GPT.predict"
    /\ call.ended \/ call.i = call.limit_tokens
    /\ out' = [out EXCEPT !.returned = call.data, !.frame = call]
    /\ call' = Idle
    /\ UNCHANGED <<files, pretrain, gpt, live, budget>>

----------------------------------------------------------------------------
(* The pretraining batch: a batch `data` is a sequence of token sequences of
   one length. *)

\* data[:, :-1]
DropLast(data) ==
    [i \in 1..Len(data) |-> SubSeq(data[i], 1, Len(data[i]) - 1)]

\* Mutant: the labels are cut like the inputs, not shifted.
DropFirst_Unshifted(data) ==
    [i \in 1..Len(data) |-> SubSeq(data[i], 1, Len(data[i]) - 1)]

\* data[:, 1:]
DropFirst(data) ==
    [i \in 1..Len(data) |-> SubSeq(data[i], 2, Len(data[i]))]

RECURSIVE SumRows(_)
SumRows(rows) ==
    IF rows = <<>> THEN 0 ELSE SumSeq(Head(rows)) + SumRows(Tail(rows))

\* What the forward pass on `inputs` and the loss against `labels` make of the
\* batch: the batch value that the loss and the gradient depend on.
BatchValue(inputs, labels) ==
    1 + ((SumRows(inputs) + 2 * SumRows(labels) + Len(inputs))
            % Cardinality(BatchVals))

\* GPTPretrain.pretrain_step on a batch of token sequences
PretrainStepData(data) ==
    /\ live = "GPTPretrain"
    /\ Enter
    /\ LET inputs == DropLast(data)
           labels == DropFirst(data)
       IN  /\ pretrain' = Pretrain_pretrain_step(pretrain,
                              BatchValue(inputs, labels))
           /\ out' = [Quiet("GPTPretrain.pretrain_step") EXCEPT
                         !.frame = [pc |-> "GPTPretrain.pretrain_step",
                                    data |-> data, inputs |-> inputs,
                                    labels |-> labels]]
    /\ UNCHANGED <<files, gpt, live, call>>

----------------------------------------------------------------------------
(* The program *)

Init ==
    /\ files = [p \in Paths |-> NoFile]
    /\ pretrain = NoPretrain
    /\ gpt = NoGPT
    /\ live = "none"
    /\ out = Quiet("start")
    /\ call = Idle
    /\ budget = MaxCalls

\* Every operation of both trainers; the fit loops run over one epoch of one
\* or two batches, reported batch by batch.
Next ==
    \/ \E p \in PathArg : PretrainInit(p)
    \/ \E p \in PathArg : PretrainSaveModel(p)
    \/ \E p \in PathArg : PretrainLoadModel(p)
    \/ \E b \in BatchVals : PretrainStep(b)
    \/ \E p \in PathArg : GPTInit(p)
    \/ \E p \in PathArg : GPTSaveModel(p)
    \/ \E p \in PathArg : GPTLoadModel(p)
    \/ \E p \in PathArg : GPTLoadPretrainedModel(p)
    \/ \E b \in BatchVals : GPTTrainStep(b)
    \/ \E n \in 1..2 : PretrainFitBegin(1, n, 1)
    \/ \E b \in BatchVals : PretrainFitStep(b)
    \/ PretrainFitEpochEnd
    \/ PretrainFitEnd
    \/ \E p \in PathArg, n \in 1..2 : GPTFitBegin(p, 1, n, 1)
    \/ \E b \in BatchVals : GPTFitStep(b)
    \/ GPTFitEpochEnd
    \/ GPTFitEnd

Spec == Init /\ [][Next]_vars

\* The state of Spec after the script  x = GPTPretrain(); x.save_model("a.pt"),
\* with three more calls to come.
InitFit ==
    /\ files = [p \in Paths |->
                  IF p = "a.pt" THEN CheckpointOf(NoPretrain) ELSE NoFile]
    /\ pretrain = [NoPretrain EXCEPT !.checkpoint = "a.pt"]
    /\ gpt = NoGPT
    /\ live = "GPTPretrain"
    /\ out = [Quiet("GPTPretrain.save_model") EXCEPT
                 !.printed = <<"Model Saved">>, !.wrote = {"a.pt"}]
    /\ call = Idle
    /\ budget = 3

\* The fit loops in every shape within the bounds, on trainers set up by
\* construction and direct training steps.
NextFit ==
    \/ \E p \in PathArg : PretrainInit(p)
    \/ \E b \in BatchVals : PretrainStep(b)
    \/ \E p \in PathArg : GPTInit(p)
    \/ \E b \in BatchVals : GPTTrainStep(b)
    \/ \E e \in 1..MaxEpochs, n \in 1..MaxBatches, m \in 1..MaxMiniBatch :
          PretrainFitBegin(e, n, m)
    \/ \E b \in BatchVals : PretrainFitStep(b)
    \/ PretrainFitEpochEnd
    \/ PretrainFitEnd
    \/ \E p \in Paths, e \in 1..MaxEpochs, n \in 1..MaxBatches,
          m \in 1..MaxMiniBatch : GPTFitBegin(p, e, n, m)
    \/ \E b \in BatchVals : GPTFitStep(b)
    \/ GPTFitEpochEnd
    \/ GPTFitEnd

SpecFit == InitFit /\ [][NextFit]_vars

RECURSIVE SeqsOfLen(_)
SeqsOfLen(n) ==
    IF n = 0 THEN {<<>>}
    ELSE {Append(q, t) : q \in SeqsOfLen(n - 1), t \in Tokens}

Prompts == UNION {SeqsOfLen(n) : n \in 1..MaxPromptLen}

\* An end token outside the vocabulary is never selected.
EndTokens == Tokens \cup {Cardinality(Tokens)}

\* A newly constructed GPT with three calls to come.
InitPredict ==
    /\ files = [p \in Paths |-> NoFile]
    /\ pretrain = NoPretrain
    /\ gpt = NoGPT
    /\ live = "GPT"
    /\ out = Quiet("GPT.__init__")
    /\ call = Idle
    /\ budget = 3

\* Decoding on a GPT whose parameters and checkpoint vary.
NextPredict ==
    \/ \E p \in Paths : GPTSaveModel(p)
    \/ \E b \in BatchVals : GPTTrainStep(b)
    \/ \E d \in Prompts, n \in 0..MaxLimitTokens, t \in EndTokens :
          GPTPredictBegin(d, n, t)
    \/ GPTPredictStep
    \/ GPTPredictReturn

SpecPredict == InitPredict /\ [][NextPredict]_vars

BatchSizes == {1, 2}

\* The batches of BatchSizes sequences of one length from 2 to MaxSeqLen
DataBatches ==
    UNION {[1..n -> SeqsOfLen(len)] : n \in BatchSizes, len \in 2..MaxSeqLen}

\* A GPTPretrain, newly constructed or after one pretraining step, with one
\* pretraining step to come.
InitStep ==
    /\ files = [p \in Paths |-> NoFile]
    /\ \/ pretrain = NoPretrain /\ out = Quiet("GPTPretrain.__init__")
       \/ /\ \E b \in BatchVals :
                 pretrain = Pretrain_pretrain_step(NoPretrain, b)
          /\ out = Quiet("GPTPretrain.pretrain_step")
    /\ gpt = NoGPT
    /\ live = "GPTPretrain"
    /\ call = Idle
    /\ budget = 1

NextStep == \E data \in DataBatches : PretrainStepData(data)

SpecStep == InitStep /\ [][NextStep]_vars

----------------------------------------------------------------------------
(* Claims *)

Min(S) == CHOOSE x \in S : \A y \in S : x <= y

\* The sequence after n unconditional greedy appends to prompt.
RECURSIVE Greedy(_, _, _)
Greedy(model, prompt, n) ==
    IF n = 0 THEN prompt
    ELSE LET q == Greedy(model, prompt, n - 1)
         IN  Append(q, GPT__predict_token(model, q))

\* The iterations (0-based, below limit_tokens) whose selected token is the
\* end token, were the loop never left.
EndIterations(model, frame) ==
    {k \in 0..(frame.limit_tokens - 1) :
        GPT__predict_token(model, Greedy(model, frame.prompt, k))
            = frame.end_token}

PredictReturned == out.op = "GPT.predict" /\ out.frame.pc = "GPT.predict"

\* C1: predict on a prompt of length L with limit_tokens = N returns at most
\* L + N tokens; when the end token is first selected in iteration k < N the
\* result has exactly L + k tokens and no appended token is the end token;
\* when it is never selected the result has exactly L + N tokens.
C1_PredictLength ==
    PredictReturned =>
        LET f == out.frame
            L == Len(f.prompt)
            K == EndIterations(gpt.model, f)
        IN  /\ Len(out.returned) <= L + f.limit_tokens
            /\ K # {} =>
                  /\ Len(out.returned) = L + Min(K)
                  /\ \A j \in (L + 1)..Len(out.returned) :
                        out.returned[j] # f.end_token
            /\ K = {} => Len(out.returned) = L + f.limit_tokens

\* A predict call that appended two tokens and then stopped at the end token
\* with iterations to spare.
C1_Witness ==
    /\ PredictReturned
    /\ EndIterations(gpt.model, out.frame) # {}
    /\ Min(EndIterations(gpt.model, out.frame)) = 2
    /\ out.frame.limit_tokens = 3
    /\ Len(out.returned) = Len(out.frame.prompt) + 2

\* C2 as claimed: once load_pretrained_model has returned, the 'pretrained
\* loaded' flag GPT.training is true.
C2_FlagAfterLoadPretrained ==
    (out.op = "GPT.load_pretrained_model" /\ ~out.raised) => gpt.training

\* A GPT.fit call with pretrained_path = None starts in this step.
FitWithoutPretrainedPath ==
    \E e \in 1..MaxEpochs, n \in 1..MaxBatches, m \in 1..MaxMiniBatch :
        GPTFitBegin(None, e, n, m)

NoCheckpointToLoad(self) ==
    self.checkpoint = None \/ ~files[self.checkpoint].exists

\* The call fails at once: an exception, no loop, nothing changed or written.
FitFailsUntouched ==
    /\ out'.raised
    /\ call'.pc = "idle"
    /\ gpt' = gpt
    /\ files' = files

\* C3 as claimed: GPT.fit with no checkpoint to load (none configured, or the
\* configured file missing) and no pretrained_path fails before any
\* train_step; parameters, optimizer, epoch and files stay as they were.
C3_Original ==
    [][(FitWithoutPretrainedPath /\ NoCheckpointToLoad(gpt))
          => FitFailsUntouched]_vars

\* C3 amended: the same, for an instance whose 'pretrained loaded' flag is
\* still false.
C3_FitWithoutBackboneFails ==
    [][(FitWithoutPretrainedPath /\ NoCheckpointToLoad(gpt) /\ ~gpt.training)
          => FitFailsUntouched]_vars

\* A fit call without pretrained_path has failed on an instance whose
\* configured checkpoint file does not exist.
C3_Witness ==
    /\ out.op = "GPT.fit"
    /\ out.raised
    /\ out.frame.pretrained_path = None
    /\ ~gpt.training
    /\ gpt.checkpoint # None
    /\ ~files[gpt.checkpoint].exists
    /\ out.read = {}

\* The files other than those in `written` are as they were.
OthersUntouched(written) ==
    \A q \in Paths \ written : files'[q] = files[q]

PretrainSaveContract(p) ==
    /\ p # None =>
          /\ files'[p] = CheckpointOf(pretrain)
          /\ out'.wrote = {p}
          /\ OthersUntouched({p})
          /\ pretrain' = [pretrain EXCEPT !.checkpoint = p]
    /\ (p = None /\ pretrain.checkpoint # None) =>
          /\ files'[pretrain.checkpoint] = CheckpointOf(pretrain)
          /\ out'.wrote = {pretrain.checkpoint}
          /\ OthersUntouched({pretrain.checkpoint})
          /\ pretrain' = pretrain
    /\ (p = None /\ pretrain.checkpoint = None) =>
          /\ pretrain' = pretrain
          /\ files' = files
          /\ out'.wrote = {}
          /\ out'.printed = <<"Checkpoint not found">>
          /\ ~out'.raised

PretrainLoadContract(p) ==
    LET target == IF p # None THEN p ELSE pretrain.checkpoint
    IN  /\ files' = files
        /\ target # None =>
              /\ pretrain'.checkpoint = target
              /\ out'.read = IF files[target].exists THEN {target} ELSE {}
              /\ files[target].exists =>
                    /\ pretrain'.model = files[target].model_state_dict
                    /\ pretrain'.optimizer = files[target].optimizer_state_dict
                    /\ pretrain'.epoch = files[target].epoch
        /\ target = None =>
              /\ pretrain' = pretrain
              /\ out'.read = {}
              /\ out'.printed = <<"Checkpoint not found">>

\* C4: GPTPretrain.save_model(path) / load_model(path) that return: an explicit
\* path is the file written or read and becomes the configured checkpoint;
\* without a path the configured checkpoint is used and stays; with neither,
\* nothing is written, read or changed, 'Checkpoint not found' is printed and
\* nothing is raised.
C4_PretrainPathSemantics ==
    [][\A p \in PathArg :
          /\ PretrainSaveModel(p) => PretrainSaveContract(p)
          /\ (PretrainLoadModel(p) /\ ~out'.raised) => PretrainLoadContract(p)
      ]_vars

\* save_model("b.pt") on an instance configured with "a.pt": b.pt was written
\* by the instance while its checkpoint was a.pt, and b.pt is now configured.
C4_Witness ==
    /\ live = "GPTPretrain"
    /\ out.op = "GPTPretrain.save_model"
    /\ out.wrote = {"b.pt"}
    /\ files["b.pt"].exists
    /\ files["b.pt"].saver.checkpoint = "a.pt"
    /\ pretrain.checkpoint = "b.pt"

NotFound(printed) ==
    \E i \in 1..Len(printed) : printed[i] = "Checkpoint not found"

\* A GPTPretrain whose configured checkpoint is that of the GPT instance.
PretrainTwin == [NoPretrain EXCEPT !.checkpoint = gpt.checkpoint]

\* C5: from the same configured checkpoint, save_model(p) and load_model(p) of
\* GPT and of GPTPretrain end with the same configured checkpoint, write or
\* read the same paths, and report 'Checkpoint not found' in the same cases.
C5_GPTMirrorsPretrain ==
    live = "GPT" =>
        \A p \in PathArg :
            LET gs == GPT_save_model(gpt, p)
                ps == Pretrain_save_model(PretrainTwin, p)
                gl == GPT_load_model(gpt, p)
                pl == Pretrain_load_model(PretrainTwin, p)
            IN  /\ gs.self.checkpoint = ps.self.checkpoint
                /\ gs.wrote = ps.wrote
                /\ NotFound(gs.printed) <=> NotFound(ps.printed)
                /\ (~gl.raised /\ ~pl.raised) =>
                      /\ gl.self.checkpoint = pl.self.checkpoint
                      /\ gl.read = pl.read
                      /\ NotFound(gl.printed) <=> NotFound(pl.printed)

\* load_model(p) on `self` is directed at a path that has no file.
MissingTarget(self, p) ==
    LET target == IF p # None THEN p ELSE self.checkpoint
    IN  target # None /\ ~files[target].exists

\* C6: load_model directed at a path with no file raises nothing and leaves
\* parameters, optimizer state and epoch (GPT: also the freeze state and the
\* 'pretrained loaded' flag) as they were.
C6_LoadMissingFile ==
    [][\A p \in PathArg :
          /\ (PretrainLoadModel(p) /\ MissingTarget(pretrain, p)) =>
                /\ ~out'.raised
                /\ pretrain'.model = pretrain.model
                /\ pretrain'.optimizer = pretrain.optimizer
                /\ pretrain'.epoch = pretrain.epoch
          /\ (GPTLoadModel(p) /\ MissingTarget(gpt, p)) =>
                /\ ~out'.raised
                /\ gpt'.model = gpt.model
                /\ gpt'.optimizer = gpt.optimizer
                /\ gpt'.epoch = gpt.epoch
                /\ gpt'.requires_grad = gpt.requires_grad
                /\ gpt'.training = gpt.training
      ]_vars

\* A trained, never-loaded GPT has called load_model on a path with no file.
C6_Witness ==
    /\ live = "GPT"
    /\ out.op = "GPT.load_model"
    /\ ~out.raised
    /\ out.read = {}
    /\ gpt.checkpoint # None
    /\ ~files[gpt.checkpoint].exists
    /\ gpt.optimizer["classifier"] > 0
    /\ gpt.optimizer["pretrained_model.embedding_layer"] > 0
    /\ ~gpt.training

\* The freeze policy: of the backbone only the final projection is trainable,
\* and the classifier is trainable.
FreezePolicy ==
    [k \in GPTFineTuneKeys |->
        k \in {"pretrained_model.decoder.linear", "classifier"}]

LoadedCheckpoint ==
    /\ out.op = "GPT.load_model"
    /\ out.read # {}
    /\ ~out.raised

\* C7: after GPT.load_model has loaded an existing checkpoint the freeze
\* policy is in force and the 'pretrained loaded' flag is true, and a GPT.fit
\* without pretrained_path that follows enters the training loop without a
\* backbone load.
C7_LoadModelFreezes ==
    /\ [](LoadedCheckpoint =>
             gpt.requires_grad = FreezePolicy /\ gpt.training)
    /\ [][(LoadedCheckpoint /\ FitWithoutPretrainedPath) =>
             /\ ~out'.raised
             /\ call'.pc = "GPT.fit"
             /\ \A i \in 1..Len(out'.printed) :
                   out'.printed[i] # "Loaded Pretrained Model"]_vars

\* load_model has loaded a checkpoint into an instance that was unfrozen, and
\* a further call can follow.
C7_Witness ==
    /\ LoadedCheckpoint
    /\ gpt.training
    /\ gpt.requires_grad = FreezePolicy
    /\ files[gpt.checkpoint].exists
    /\ \A k \in GPTFineTuneKeys : files[gpt.checkpoint].saver.requires_grad[k]
    /\ budget > 0

FrozenKeys == PretrainedModelKeys \ {"pretrained_model.decoder.linear"}

Frozen(self) == \A k \in FrozenKeys : ~self.requires_grad[k]

TrainStepTaken == \E b \in BatchVals : GPTTrainStep(b) \/ GPTFitStep(b)

\* C8: load_pretrained_model leaves the embedding and the decoder below the
\* final projection frozen, holding the values of the pretraining checkpoint;
\* a train_step on a frozen backbone keeps it frozen and changes none of
\* those parameters.
C8_TrainStepKeepsBackbone ==
    /\ []((out.op = "GPT.load_pretrained_model" /\ ~out.raised) =>
             /\ Frozen(gpt)
             /\ \A p \in out.read : \A j \in GPTModelKeys \ {"decoder.linear"} :
                   gpt.model[Prefixed(j)] = files[p].model_state_dict[j])
    /\ [][(TrainStepTaken /\ Frozen(gpt)) =>
             /\ Frozen(gpt')
             /\ \A k \in FrozenKeys :
                   /\ gpt'.model[k] = gpt.model[k]
                   /\ gpt'.optimizer[k] = gpt.optimizer[k]]_vars

\* A train_step has run after load_pretrained_model: the optimizer has
\* stepped the classifier and the final projection, not the embedding.
C8_Witness ==
    /\ live = "GPT"
    /\ out.op = "GPT.train_step"
    /\ Frozen(gpt)
    /\ ~gpt.training
    /\ gpt.optimizer["classifier"] > 0
    /\ gpt.optimizer["pretrained_model.decoder.linear"] > 0
    /\ gpt.optimizer["pretrained_model.embedding_layer"] = 0
    /\ gpt.model["classifier"] # 0

InFit == call.pc \in {"GPTPretrain.fit", "GPT.fit"}

Ceil(t, m) == (t + m - 1) \div m

\* Reports due in an epoch of t batches after its first `done` batches: one
\* per full window of m, and one more for a short last window.
ReportsAfter(done, t, m) ==
    (done \div m) + (IF done = t /\ t % m # 0 THEN 1 ELSE 0)

\* C9: in both fit loops, with mini_batch = M and T batches per epoch, a batch
\* is followed by one report exactly when its 1-based index is a multiple of
\* M or it is the last batch, by none otherwise; at the end of every epoch
\* ceil(T/M) reports have been emitted.
C9_ReportsPerEpoch ==
    /\ [](InFit =>
             /\ call.reports =
                    ReportsAfter(call.index, call.batches, call.mini_batch)
             /\ call.index = call.batches =>
                    call.reports = Ceil(call.batches, call.mini_batch))
    /\ [][(InFit /\ call'.pc = call.pc /\ call'.index = call.index + 1) =>
             call'.reports - call.reports =
                 IF \/ call'.index % call.mini_batch = 0
                    \/ call'.index = call.batches
                 THEN 1 ELSE 0]_vars

\* The second epoch of a GPT.fit with T = 3, M = 2 has run its last batch:
\* two reports, the second for the short window.
C9_Witness ==
    /\ call.pc = "GPT.fit"
    /\ call.batches = 3
    /\ call.mini_batch = 2
    /\ call.e = 1
    /\ call.index = 3
    /\ call.reports = 2
    /\ out.report.batch = 3

\* The call that just returned loaded a checkpoint file into the trainer.
PretrainLoaded ==
    /\ out.op \in {"GPTPretrain.load_model", "GPTPretrain.__init__"}
    /\ out.read # {}
    /\ ~out.raised

GPTLoaded ==
    /\ out.op \in {"GPT.load_model", "GPT.__init__"}
    /\ out.read # {}
    /\ ~out.raised

\* The trainer as it was when it saved the file that was just loaded.
Saver == files[CHOOSE p \in out.read : TRUE].saver

SameState(self, saved) ==
    /\ self.model = saved.model
    /\ self.optimizer = saved.optimizer
    /\ self.epoch = saved.epoch

PretrainRoundTrip ==
    PretrainLoaded =>
        /\ SameState(pretrain, Saver)
        /\ \A b \in BatchVals :
              SameState(Pretrain_pretrain_step(pretrain, b),
                        Pretrain_pretrain_step(Saver, b))

\* C10 as claimed: after save_model and load_model of the same path, by either
\* trainer, parameters, optimizer state and epoch are those at the save, and
\* a training step gives what it would have given without save and load.
C10_Original ==
    /\ PretrainRoundTrip
    /\ GPTLoaded =>
          /\ SameState(gpt, Saver)
          /\ \A b \in BatchVals :
                SameState(GPT_train_step(gpt, b), GPT_train_step(Saver, b))

\* C10 amended: parameters, optimizer state and epoch are those at the save
\* for both trainers; the next training step is the same for GPTPretrain, and
\* for GPT when the freeze policy was in force at the save.
C10_RoundTrip ==
    /\ PretrainRoundTrip
    /\ GPTLoaded =>
          /\ SameState(gpt, Saver)
          /\ Saver.requires_grad = FreezePolicy =>
                \A b \in BatchVals :
                    SameState(GPT_train_step(gpt, b), GPT_train_step(Saver, b))

\* A new GPT has loaded the checkpoint that a frozen, trained GPT saved.
C10_Witness ==
    /\ out.op = "GPT.__init__"
    /\ GPTLoaded
    /\ Saver.requires_grad = FreezePolicy
    /\ gpt.optimizer["classifier"] > 0
    /\ gpt.epoch > 0

\* One step of a fit call of the trainer `self` (`next` after the step): the
\* epoch counter moves with the epochs completed and no file is written while
\* the loops run; the call returns after `epochs` epochs, and then writes the
\* configured checkpoint, with the epoch counter in memory, or nothing.
FitEpochs(self, next) ==
    /\ call'.pc = call.pc =>
          /\ call'.e - call.e \in {0, 1}
          /\ next.epoch - self.epoch = call'.e - call.e
          /\ files' = files
    /\ call'.pc = "idle" =>
          /\ call.e = call.epochs
          /\ next.epoch = self.epoch
          /\ IF self.checkpoint # None
             THEN /\ out'.wrote = {self.checkpoint}
                  /\ files'[self.checkpoint].exists
                  /\ files'[self.checkpoint].epoch = next.epoch
                  /\ OthersUntouched({self.checkpoint})
             ELSE /\ out'.wrote = {}
                  /\ files' = files

\* C11: a fit call enters its loops with no epoch completed, adds one to the
\* epoch counter per epoch and returns after `epochs` of them, so the counter
\* at return is the counter after the initial load plus `epochs` (the epoch
\* of the loaded checkpoint plus the epochs completed, all along); the
\* checkpoint is written once, at the return, if and only if a path is
\* configured, with the epoch counter of the return.
C11_FitEpochsAndSave ==
    /\ [][/\ (call.pc = "idle" /\ call'.pc # "idle" /\ InFit') =>
                (call'.e = 0 /\ files' = files)
          /\ call.pc = "GPT.fit" => FitEpochs(gpt, gpt')
          /\ call.pc = "GPTPretrain.fit" => FitEpochs(pretrain, pretrain')
        ]_vars
    /\ []((call.pc = "GPT.fit" /\ gpt.checkpoint # None) =>
             (files[gpt.checkpoint].exists =>
                 gpt.epoch = files[gpt.checkpoint].epoch + call.e))
    /\ []((call.pc = "GPTPretrain.fit" /\ pretrain.checkpoint # None) =>
             (files[pretrain.checkpoint].exists =>
                 pretrain.epoch = files[pretrain.checkpoint].epoch + call.e))

\* A GPT.fit of two epochs has returned and has saved its checkpoint with the
\* epoch counter 2.
C11_Witness ==
    /\ out.op = "GPT.fit"
    /\ ~out.raised
    /\ call.pc = "idle"
    /\ out.frame.epochs = 2
    /\ gpt.checkpoint # None
    /\ out.wrote = {gpt.checkpoint}
    /\ files[gpt.checkpoint].epoch = gpt.epoch
    /\ gpt.epoch = 2

StepOnData ==
    /\ out.op = "GPTPretrain.pretrain_step"
    /\ out.frame.pc = "GPTPretrain.pretrain_step"

\* C12: pretrain_step on sequences of length L gives the model inputs of
\* length L-1 and scores them against labels of length L-1, with
\* inputs[t] = original[t] and labels[t] = original[t+1] for t in 0..L-2
\* (sequences are indexed from 1 here).
C12_ShiftedLabels ==
    StepOnData =>
        LET f == out.frame
        IN  /\ Len(f.inputs) = Len(f.data)
            /\ Len(f.labels) = Len(f.data)
            /\ \A i \in 1..Len(f.data) :
                  LET len == Len(f.data[i])
                  IN  /\ Len(f.inputs[i]) = len - 1
                      /\ Len(f.labels[i]) = len - 1
                      /\ \A t \in 0..(len - 2) :
                            /\ f.inputs[i][t + 1] = f.data[i][t + 1]
                            /\ f.labels[i][t + 1] = f.data[i][t + 2]

\* A second step has run, on a batch of two sequences of length 3; the first
\* is 0 1 2, with inputs 0 1 and labels 1 2.
C12_Witness ==
    /\ StepOnData
    /\ budget = 0
    /\ Len(out.frame.data) = 2
    /\ out.frame.data[1] = <<0, 1, 2>>
    /\ out.frame.inputs[1] = <<0, 1>>
    /\ out.frame.labels[1] = <<1, 2>>
    /\ pretrain.optimizer["embedding_layer"] = 2

RECURSIVE SumPerplexity(_)
SumPerplexity(w) ==
    IF w = <<>> THEN 0 ELSE PerplexityLoss(Head(w)) + SumPerplexity(Tail(w))

\* The quotient q = <<numerator, denominator>> is the mean of `total` over
\* `count` steps.
IsMean(q, total, count) == q[1] * count = total * q[2]

\* C13: the loss of every progress line (in pretraining also the perplexity)
\* is the sum of the per-step values of the steps run since the previous
\* line, divided by the number of those steps.
C13_ReportIsWindowMean ==
    out.report # NoReport =>
        LET w == out.report.window
        IN  /\ IsMean(out.report.loss, SumSeq(w), Len(w))
            /\ out.op = "GPTPretrain.fit" =>
                  IsMean(out.report.perplexity, SumPerplexity(w), Len(w))

\* The trainer state equals the record of its configured checkpoint.
AsPersisted(self) ==
    /\ self.model = files[self.checkpoint].model_state_dict
    /\ self.optimizer = files[self.checkpoint].optimizer_state_dict
    /\ self.epoch = files[self.checkpoint].epoch

HasCheckpoint(self) ==
    self.checkpoint # None /\ files[self.checkpoint].exists

AtLoopEntry == call.e = 0 /\ call.index = 0

\* C14: with a configured checkpoint whose file exists, GPTPretrain.fit and
\* GPT.fit reach their first step, and GPT.predict its first forward pass,
\* on the persisted parameters (fit: also optimizer state and epoch).
C14_CheckpointConsumedAtStart ==
    /\ (call.pc = "GPTPretrain.fit" /\ AtLoopEntry /\ HasCheckpoint(pretrain))
          => AsPersisted(pretrain)
    /\ (call.pc = "GPT.fit" /\ AtLoopEntry /\ HasCheckpoint(gpt))
          => AsPersisted(gpt)
    /\ (call.pc = "GPT.predict" /\ call.i = 0 /\ ~call.ended
          /\ HasCheckpoint(gpt))
          => gpt.model = files[gpt.checkpoint].model_state_dict

\* The frame f of a predict call: the running sequence is the prompt followed
\* by the f.i tokens selected so far; each of them has the largest logit at
\* the last position of the sequence before it, and none is the end token.
GreedyFrame(f) ==
    LET n == Len(f.prompt)
    IN  /\ Len(f.data) = n + f.i
        /\ SubSeq(f.data, 1, n) = f.prompt
        /\ \A k \in 1..f.i :
              LET input == SubSeq(f.data, 1, n + k - 1)
                  token == f.data[n + k]
              IN  /\ token \in Tokens
                  /\ token # f.end_token
                  /\ \A w \in Tokens :
                        Logit(gpt.model, input, w)
                            <= Logit(gpt.model, input, token)

\* C15: throughout GPT.predict the sequence is the prompt followed by the
\* tokens selected so far, each the argmax at the last position of the
\* sequence it was selected from; the returned sequence has the prompt as
\* prefix and no appended token equals end_token.
C15_GreedyDecoding ==
    /\ call.pc = "GPT.predict" => GreedyFrame(call)
    /\ PredictReturned =>
          (GreedyFrame(out.frame) /\ out.returned = out.frame.data)

\* A predict call has returned on the end token after appending two
\* different tokens.
C15_Witness ==
    /\ PredictReturned
    /\ out.frame.ended
    /\ out.frame.i = 2
    /\ out.returned[Len(out.returned)] # out.returned[Len(out.returned) - 1]
    /\ out.frame.end_token \in Tokens

\* One training step from `self` to `next` on batch b: the optimizer has
\* stepped every trainable parameter once and no other, and the loss of the
\* forward pass on the parameters before the step has been added to the
\* running counter (`reported`: the fit loop has printed and reset it).
OneStep(self, next, trainable, b, reported) ==
    /\ \A k \in DOMAIN self.optimizer :
          next.optimizer[k] - self.optimizer[k] =
              IF k \in trainable THEN 1 ELSE 0
    /\ IF reported
       THEN /\ out'.report.loss[1] = self.entropy_loss + Loss(self.model, b)
            /\ next.entropy_loss = 0
       ELSE next.entropy_loss = self.entropy_loss + Loss(self.model, b)

FitReported == call'.reports = call.reports + 1

\* The optimizer steps a fit call has taken when it is at batch `index` of
\* epoch `e`.
StepsOfFit == call.e * call.batches + call.index

SameInstance ==
    /\ live = "GPT"
    /\ out'.op \notin {"GPT.__init__", "GPTPretrain.__init__"}

\* C17: while GPT.fit is in its training loop the embedding and the decoder
\* below the final projection are frozen; no operation on an instance
\* unfreezes them, and none sets its 'pretrained loaded' flag back to false.
C17_FitTrainsFrozenBackbone ==
    /\ [](call.pc = "GPT.fit" => Frozen(gpt))
    /\ [][SameInstance =>
             /\ Frozen(gpt) => Frozen(gpt')
             /\ gpt.training => gpt'.training]_vars

\* GPT.fit has run a train_step after load_pretrained_model, with no
\* checkpoint loaded.
C17_Witness ==
    /\ call.pc = "GPT.fit"
    /\ call.index > 0
    /\ out.read = {call.pretrained_path}
    /\ ~gpt.training
    /\ Frozen(gpt)
    /\ gpt.optimizer["classifier"] > 0

\* C18: no step of GPT.predict, from the call to the return, changes the
\* parameters, the optimizer state, the epoch, the running loss, the
\* configured checkpoint, the freeze state or the 'pretrained loaded' flag,
\* or writes a file; only the mode of the model becomes evaluation.
C18_PredictFrame ==
    /\ [][(call.pc = "GPT.predict" \/ call'.pc = "GPT.predict") =>
             /\ gpt' = [gpt EXCEPT !.mode = "eval"]
             /\ files' = files
             /\ pretrain' = pretrain]_vars
    /\ []((call.pc = "GPT.predict" \/ PredictReturned) => gpt.mode = "eval")

\* predict has returned a longer sequence on a trained instance with a
\* configured checkpoint.
C18_Witness ==
    /\ PredictReturned
    /\ out.frame.i > 0
    /\ gpt.mode = "eval"
    /\ gpt.optimizer["classifier"] > 0
    /\ gpt.entropy_loss > 0
    /\ gpt.checkpoint # None

\* A fit call is between two epochs or past its last one.
BetweenEpochs ==
    /\ InFit
    /\ call.index = call.batches \/ (call.e > 0 /\ call.index = 0)

\* The last call was a fit, and it has returned.
FitReturned ==
    /\ out.op \in {"GPTPretrain.fit", "GPT.fit"}
    /\ call.pc = "idle"
    /\ ~out.raised

\* C19: in both fit loops the running counters (entropy_loss, in pretraining
\* also perplexity) are zero at the end of every epoch, at the start of the
\* next one and when fit has returned.
C19_CountersZeroBetweenEpochs ==
    /\ (BetweenEpochs /\ call.pc = "GPTPretrain.fit") =>
          (pretrain.entropy_loss = 0 /\ pretrain.perplexity = 0)
    /\ (BetweenEpochs /\ call.pc = "GPT.fit") => gpt.entropy_loss = 0
    /\ (FitReturned /\ out.op = "GPTPretrain.fit") =>
          (pretrain.entropy_loss = 0 /\ pretrain.perplexity = 0)
    /\ (FitReturned /\ out.op = "GPT.fit") => gpt.entropy_loss = 0

\* A GPT.fit of two epochs of 3 batches with mini_batch = 2 has returned:
\* its last progress line closed a window of one step, and the counter is
\* zero.
C19_Witness ==
    /\ FitReturned
    /\ out.op = "GPT.fit"
    /\ out.frame.epochs = 2
    /\ out.frame.batches = 3
    /\ out.frame.mini_batch = 2
    /\ out.report.batch = 3
    /\ Len(out.report.window) = 1
    /\ out.report.loss[1] > 0
    /\ gpt.entropy_loss = 0

====
